---- MODULE Spec2Model ----
(***************************************************************************)
(* k-notes frontend: the offline mutation queue (lib/db.ts), the sync      *)
(* coordinator that drains it (lib/sync.ts: processQueue, useSync) and the *)
(* note mutations that feed it (hooks/use-notes.ts).                       *)
(*                                                                         *)
(* Scheduling is the browser's event loop: a handler runs to its next      *)
(* await, so every action below is one synchronous run of code between two *)
(* suspension points (IndexedDB request, fetch).                           *)
(***************************************************************************)
EXTENDS Integers, Sequences, FiniteSets, TLC

\* ---------------------------------------------------------------- bounds
MaxQueue == 2       \* records the key generator hands out in one behaviour
MaxPasses == 2      \* processQueue invocations in one behaviour
MaxClock == 2       \* distinct values Date.now() returns
MaxActions == 1     \* note mutations (mutate calls) in one behaviour
MaxCalls == 3       \* calls of the db.ts functions in one behaviour of the store
MaxOpens == 2       \* openDB calls in one behaviour of the store
MaxInFlight == 2    \* note mutations in one behaviour of overlapping mutations

\* ------------------------------------------------------------- data model
NoteIds == {"A", "B"}

NoBody == [absent |-> TRUE]     \* a value that is not there: no body, null, no context

\* The server's notes when the session starts, as Note values (id, title).
InitialNotes == <<[id |-> "A", title |-> "t0"], [id |-> "B", title |-> "t0"]>>

CreateInputs == {[title |-> "t2"]}      \* CreateNoteInput
UpdateInputs == {[title |-> "t1"]}      \* UpdateNoteInput without its id

\* CreateNoteInput values with the optional fields (color, is_pinned, tags)
\* given or left out.
NoteInputs ==
    { [title |-> "t2", content |-> "c"],
      [title |-> "t2", content |-> "c", color |-> "red"],
      [title |-> "t2", content |-> "c", is_pinned |-> TRUE],
      [title |-> "t2", content |-> "c", is_pinned |-> FALSE],
      [title |-> "t2", content |-> "c", color |-> "red", is_pinned |-> TRUE, tags |-> <<"work">>] }

NotesKeys == {"notes:all", "notes:tag"}     \* the ['notes', params] queries in use
TagsKey == "tags"                           \* the ['tags'] query
Tagged == {"A"}                             \* the notes the 'notes:tag' filter selects

\* The MutationRequest each mutation hands to addToMutationQueue.
CreateRequest(data) == [type |-> "POST", endpoint |-> <<"notes">>, body |-> data]
UpdateRequest(id, data) == [type |-> "PATCH", endpoint |-> <<"notes", id>>, body |-> data]
DeleteRequest(id) == [type |-> "DELETE", endpoint |-> <<"notes", id>>, body |-> NoBody]

\* The requests the sync specification enqueues: one of each type.
Requests ==
    {CreateRequest(d) : d \in CreateInputs}
    \cup {UpdateRequest("A", d) : d \in UpdateInputs}
    \cup {DeleteRequest("B")}

Timestamps == 1..MaxClock
PassIds == 1..MaxPasses
ActionIds == 1..MaxActions
CallIds == 1..MaxCalls
OpenIds == 1..MaxOpens
RaceIds == 1..MaxInFlight

\* How a fetchWithAuth call ends: resolved, TypeError (timeout, connection
\* failure), ApiError (response not ok).
Outcomes == {"ok", "network", "rejected"}

ToastMsgs == {"loading", "Sync complete", "created offline", "updated offline", "deleted offline"}

VARIABLES
    online,      \* navigator.onLine
    mounted,     \* useSync's effect has run: the 'online' listener is registered
    store,       \* object store mutation_queue: the set of stored records
    keyGen,      \* the store's autoIncrement key generator: the next id
    pass,        \* the processQueue invocations: position, snapshot, index (and history:
                 \* the records tried and failed, the key generator at the read)
    serverLog,   \* requests the server answered with success, in order
    netCalls,    \* number of POST/PATCH/DELETE fetch calls issued
    stale,       \* query keys invalidated (invalidateQueries) and not refetched
    toasts,      \* toasts: visible loading toasts and messages shown, counted
    offlineOnly, \* history: every enqueue so far happened while offline
    cache,       \* the query cache: data of each ['notes', ...] query
    act,         \* the note mutations: position, variables, context, result
    dbPromise,   \* db.ts dbPromise: 0 (null) or n, the promise of the n-th openDB call
    opened,      \* the state of the promise of each openDB call
    call         \* the calls of addToMutationQueue, getMutationQueue, clearMutationFromQueue

vars == <<online, mounted, store, keyGen, pass, serverLog, netCalls, stale, toasts,
          offlineOnly, cache, act, dbPromise, opened, call>>

appVars == <<online, mounted, pass, serverLog, netCalls, stale, toasts, offlineOnly, cache, act>>
dbVars == <<dbPromise, opened, call>>

uiVars == <<stale, toasts>>
noteVars == <<cache, act>>
syncVars == <<mounted, pass>>

\* --------------------------------------------------------------- lib/db.ts

Ids(S) == {r.id : r \in S}

\* Order of the 'by-timestamp' index: by index key (timestamp), then by primary key.
IndexBefore(r, q) ==
    \/ r.timestamp < q.timestamp
    \/ r.timestamp = q.timestamp /\ r.id <= q.id

RECURSIVE IndexOrder(_)
IndexOrder(S) ==
    IF S = {} THEN <<>>
    ELSE LET m == CHOOSE r \in S : \A q \in S : IndexBefore(r, q)
         IN  <<m>> \o IndexOrder(S \ {m})

\* getMutationQueue: db.getAllFromIndex('mutation_queue', 'by-timestamp')
getMutationQueue == IndexOrder(store)

\* db.add('mutation_queue', {...mutation, timestamp: Date.now()}): the key
\* generator supplies the id and advances.
addToMutationQueue(req, ts) ==
    /\ store' = store \cup {[id |-> keyGen, type |-> req.type, endpoint |-> req.endpoint,
                             body |-> req.body, timestamp |-> ts]}
    /\ keyGen' = keyGen + 1

\* (mutant) the delete takes the key range up to id instead of the key id
clearUpTo(id) == store' = {r \in store : r.id > id}

\* db.delete('mutation_queue', id)
clearMutationFromQueue(id) == store' = {r \in store : r.id # id}

\* The calls a client of db.ts makes: add a request (db.ts stores the request
\* as it is, whatever its type), list, delete by id.
Ops ==
    {[kind |-> "add", req |-> CreateRequest(d), ts |-> t, id |-> 0] :
        d \in CreateInputs, t \in Timestamps}
    \cup {[kind |-> "list", req |-> NoBody, ts |-> 0, id |-> 0]}
    \cup {[kind |-> "delete", req |-> NoBody, ts |-> 0, id |-> i] : i \in 1..(MaxQueue + 1)}

NoCall == [pc |-> "idle", op |-> NoBody, promise |-> 0, result |-> NoBody, key |-> 0]

IdleCall == {c \in CallIds : call[c].pc = "idle"}
FreeCall == CHOOSE c \in IdleCall : \A d \in IdleCall : c <= d

Opens == Cardinality({n \in OpenIds : opened[n] # "none"})      \* openDB calls so far

\* The store is open: the first getDb() of the session has resolved.
DbOpen ==
    /\ dbPromise = 1
    /\ opened = [n \in OpenIds |-> IF n = 1 THEN "resolved" ELSE "none"]
    /\ call = [c \in CallIds |-> NoCall]

\* getDb(): `if (!dbPromise) dbPromise = openDB(...).catch(...)`, `return dbPromise`
getDb ==
    IF dbPromise = 0
    THEN /\ dbPromise' = Opens + 1
         /\ opened' = [opened EXCEPT ![Opens + 1] = "pending"]
    ELSE UNCHANGED <<dbPromise, opened>>

\* A db.ts function is called: it runs to `await getDb()`.
Call(op) ==
    /\ IdleCall # {}
    /\ dbPromise = 0 => Opens < MaxOpens
    /\ getDb
    /\ call' = [call EXCEPT ![FreeCall] = [NoCall EXCEPT !.pc = "getDb", !.op = op,
                                                         !.promise = dbPromise']]
    /\ UNCHANGED <<store, keyGen>>
    /\ UNCHANGED appVars

\* openDB succeeds: the promise resolves with the database.
OpenResolves(n) ==
    /\ opened[n] = "pending"
    /\ opened' = [opened EXCEPT ![n] = "resolved"]
    /\ UNCHANGED <<dbPromise, call, store, keyGen>>
    /\ UNCHANGED appVars

\* (mutant) the catch handler rethrows without resetting dbPromise
OpenRejectsKeepsPromise(n) ==
    /\ opened[n] = "pending"
    /\ opened' = [opened EXCEPT ![n] = "rejected"]
    /\ UNCHANGED <<dbPromise, call, store, keyGen>>
    /\ UNCHANGED appVars

\* openDB fails: the catch handler sets dbPromise = null and rethrows, so the
\* promise getDb returned rejects.
OpenRejects(n) ==
    /\ opened[n] = "pending"
    /\ opened' = [opened EXCEPT ![n] = "rejected"]
    /\ dbPromise' = 0
    /\ UNCHANGED <<call, store, keyGen>>
    /\ UNCHANGED appVars

\* `await getDb()` throws in the call c: the function rejects with the error.
GetDbRejected(c) ==
    /\ call[c].pc = "getDb"
    /\ opened[call[c].promise] = "rejected"
    /\ call' = [call EXCEPT ![c].pc = "failed"]
    /\ UNCHANGED <<dbPromise, opened, store, keyGen>>
    /\ UNCHANGED appVars

\* addToMutationQueue after `await getDb()`: db.add, then the function returns
\* nothing (Promise<void>).
AddDone(c) ==
    /\ call[c].pc = "getDb"
    /\ opened[call[c].promise] = "resolved"
    /\ call[c].op.kind = "add"
    /\ keyGen <= MaxQueue
    /\ addToMutationQueue(call[c].op.req, call[c].op.ts)
    /\ call' = [call EXCEPT ![c].pc = "done", ![c].key = keyGen, ![c].result = NoBody]
    /\ UNCHANGED <<dbPromise, opened>>
    /\ UNCHANGED appVars

\* getMutationQueue after `await getDb()`: the rows of the index.
ListDone(c) ==
    /\ call[c].pc = "getDb"
    /\ opened[call[c].promise] = "resolved"
    /\ call[c].op.kind = "list"
    /\ call' = [call EXCEPT ![c].pc = "done", ![c].result = [rows |-> getMutationQueue]]
    /\ UNCHANGED <<dbPromise, opened, store, keyGen>>
    /\ UNCHANGED appVars

\* (mutant) deleting a key that is not stored is an error
DeleteDoneMissingFails(c) ==
    /\ call[c].pc = "getDb"
    /\ opened[call[c].promise] = "resolved"
    /\ call[c].op.kind = "delete"
    /\ clearMutationFromQueue(call[c].op.id)
    /\ call' = [call EXCEPT ![c].pc = IF call[c].op.id \in Ids(store) THEN "done" ELSE "failed"]
    /\ UNCHANGED <<dbPromise, opened, keyGen>>
    /\ UNCHANGED appVars

\* clearMutationFromQueue after `await getDb()`: db.delete resolves whether or
\* not the key is stored.
DeleteDone(c) ==
    /\ call[c].pc = "getDb"
    /\ opened[call[c].promise] = "resolved"
    /\ call[c].op.kind = "delete"
    /\ clearMutationFromQueue(call[c].op.id)
    /\ call' = [call EXCEPT ![c].pc = "done"]
    /\ UNCHANGED <<dbPromise, opened, keyGen>>
    /\ UNCHANGED appVars

\* ------------------------------------------------------------- lib/sync.ts

IdlePass == {p \in PassIds : pass[p].pc = "idle"}
FreePass == CHOOSE p \in IdlePass : \A q \in IdlePass : p <= q

NoPass == [pc |-> "idle", queue |-> <<>>, i |-> 0, read |-> FALSE, tried |-> {}, failed |-> {},
           rejected |-> {}, unremoved |-> {}, keyAtRead |-> 0]

\* (mutant) processQueue without its navigator.onLine test
processQueueNoOnlineTest(p, isOnline) ==
    pass' = [pass EXCEPT ![p].pc = "getQueue"]

\* processQueue up to its first await: the navigator.onLine test, then the
\* call of getMutationQueue.
processQueue(p, isOnline) ==
    pass' = [pass EXCEPT ![p].pc = IF isOnline THEN "getQueue" ELSE "done"]

\* (mutant) the invalidation is skipped when a record of the pass failed
NextRecordInvalidateOnSuccess(p, ps) ==
    IF ps.i < Len(ps.queue)
    THEN /\ pass' = [pass EXCEPT ![p] = [ps EXCEPT !.pc = "inflight", !.i = ps.i + 1,
                                                   !.tried = @ \cup {ps.queue[ps.i + 1].id}]]
         /\ netCalls' = netCalls + 1
         /\ UNCHANGED uiVars
    ELSE /\ pass' = [pass EXCEPT ![p] = [ps EXCEPT !.pc = "done"]]
         /\ stale' = IF ps.failed = {} THEN stale \cup NotesKeys \cup {TagsKey} ELSE stale
         /\ toasts' = [toasts EXCEPT !["loading"] = @ - 1, !["Sync complete"] = @ + 1]
         /\ UNCHANGED netCalls

\* The loop head after record ps.i is finished: issue the request of the next
\* record, or leave the loop, invalidate both collections and show the summary.
NextRecord(p, ps) ==
    IF ps.i < Len(ps.queue)
    THEN /\ pass' = [pass EXCEPT ![p] = [ps EXCEPT !.pc = "inflight", !.i = ps.i + 1,
                                                   !.tried = @ \cup {ps.queue[ps.i + 1].id}]]
         /\ netCalls' = netCalls + 1
         /\ UNCHANGED uiVars
    ELSE /\ pass' = [pass EXCEPT ![p] = [ps EXCEPT !.pc = "done"]]
         /\ stale' = stale \cup NotesKeys \cup {TagsKey}
         /\ toasts' = [toasts EXCEPT !["loading"] = @ - 1, !["Sync complete"] = @ + 1]
         /\ UNCHANGED netCalls

\* useSync's effect: processQueue on mount, then the 'online' listener.
Mount ==
    /\ ~mounted
    /\ IdlePass # {}
    /\ mounted' = TRUE
    /\ processQueue(FreePass, online)
    /\ UNCHANGED <<online, store, keyGen, serverLog, netCalls, stale, toasts, offlineOnly>>
    /\ UNCHANGED noteVars
    /\ UNCHANGED dbVars

\* (mutant) useSync registers no 'online' listener
GoOnlineNoListener ==
    /\ ~online
    /\ mounted => IdlePass # {}
    /\ online' = TRUE
    /\ UNCHANGED <<mounted, store, keyGen, pass, serverLog, netCalls, stale, toasts, offlineOnly>>
    /\ UNCHANGED noteVars
    /\ UNCHANGED dbVars

\* The browser goes online: the 'online' event runs handleOnline, if registered.
GoOnline ==
    /\ ~online
    /\ mounted => IdlePass # {}
    /\ online' = TRUE
    /\ IF mounted THEN processQueue(FreePass, TRUE) ELSE UNCHANGED pass
    /\ UNCHANGED <<mounted, store, keyGen, serverLog, netCalls, stale, toasts, offlineOnly>>
    /\ UNCHANGED noteVars
    /\ UNCHANGED dbVars

GoOffline ==
    /\ online
    /\ online' = FALSE
    /\ UNCHANGED <<mounted, store, keyGen, pass, serverLog, netCalls, stale, toasts, offlineOnly>>
    /\ UNCHANGED noteVars
    /\ UNCHANGED dbVars

\* A caller's addToMutationQueue completes (the callers are the note mutations).
Enqueue(req, ts) ==
    /\ keyGen <= MaxQueue
    /\ addToMutationQueue(req, ts)
    /\ offlineOnly' = (offlineOnly /\ ~online)
    /\ UNCHANGED <<online, mounted, pass, serverLog, netCalls, stale, toasts>>
    /\ UNCHANGED noteVars
    /\ UNCHANGED dbVars

\* (mutant) processQueue without its `queue.length === 0` return
GetQueueNoEmptyReturn(p) ==
    /\ pass[p].pc = "getQueue"
    /\ LET queue == getMutationQueue
           ps == [pass[p] EXCEPT !.queue = queue, !.read = TRUE, !.keyAtRead = keyGen]
       IN  /\ toasts' = [toasts EXCEPT !["loading"] = @ + 1]
           /\ IF Len(queue) = 0
              THEN /\ pass' = [pass EXCEPT ![p] = [ps EXCEPT !.pc = "done"]]
                   /\ stale' = stale \cup NotesKeys \cup {TagsKey}
                   /\ UNCHANGED netCalls
              ELSE /\ pass' = [pass EXCEPT ![p] = [ps EXCEPT !.pc = "inflight", !.i = 1,
                                                             !.tried = {queue[1].id}]]
                   /\ netCalls' = netCalls + 1
                   /\ UNCHANGED stale
    /\ UNCHANGED <<online, mounted, store, keyGen, serverLog, offlineOnly>>
    /\ UNCHANGED noteVars
    /\ UNCHANGED dbVars

\* processQueue resumes with the result of getMutationQueue.
GetQueue(p) ==
    /\ pass[p].pc = "getQueue"
    /\ LET queue == getMutationQueue
           ps == [pass[p] EXCEPT !.queue = queue, !.read = TRUE, !.keyAtRead = keyGen]
       IN  IF Len(queue) = 0
           THEN /\ pass' = [pass EXCEPT ![p] = [ps EXCEPT !.pc = "done"]]
                /\ UNCHANGED <<netCalls, stale, toasts>>
           ELSE /\ pass' = [pass EXCEPT ![p] = [ps EXCEPT !.pc = "inflight", !.i = 1,
                                                          !.tried = {queue[1].id}]]
                /\ netCalls' = netCalls + 1
                /\ toasts' = [toasts EXCEPT !["loading"] = @ + 1]
                /\ UNCHANGED stale
    /\ UNCHANGED <<online, mounted, store, keyGen, serverLog, offlineOnly>>
    /\ UNCHANGED noteVars
    /\ UNCHANGED dbVars

\* (mutant) the catch block drops a record the server rejected (the 4xx purge
\* the comment in the catch block considers)
RespondPurgeRejected(p, outcome) ==
    /\ pass[p].pc = "inflight"
    /\ LET m == pass[p].queue[pass[p].i]
       IN  IF outcome = "ok"
           THEN /\ serverLog' = Append(serverLog, [src |-> m.id, type |-> m.type,
                                                   endpoint |-> m.endpoint, body |-> m.body])
                /\ pass' = [pass EXCEPT ![p].pc = "clear"]
                /\ UNCHANGED <<netCalls, stale, toasts, store>>
           ELSE /\ NextRecord(p, [pass[p] EXCEPT
                                    !.failed = @ \cup {m.id},
                                    !.rejected = IF outcome = "rejected" THEN @ \cup {m.id} ELSE @])
                /\ store' = IF outcome = "rejected" THEN {r \in store : r.id # m.id} ELSE store
                /\ UNCHANGED serverLog
    /\ UNCHANGED <<online, mounted, keyGen, offlineOnly>>
    /\ UNCHANGED noteVars
    /\ UNCHANGED dbVars

\* (mutant) a retry limit: the catch block drops a record that an earlier
\* pass has already failed on
RespondAbandonAfterRetry(p, outcome) ==
    /\ pass[p].pc = "inflight"
    /\ LET m == pass[p].queue[pass[p].i]
           failedBefore == UNION {pass[q].failed : q \in PassIds \ {p}}
       IN  IF outcome = "ok"
           THEN /\ serverLog' = Append(serverLog, [src |-> m.id, type |-> m.type,
                                                   endpoint |-> m.endpoint, body |-> m.body])
                /\ pass' = [pass EXCEPT ![p].pc = "clear"]
                /\ UNCHANGED <<netCalls, stale, toasts, store>>
           ELSE /\ NextRecord(p, [pass[p] EXCEPT
                                    !.failed = @ \cup {m.id},
                                    !.rejected = IF outcome = "rejected" THEN @ \cup {m.id} ELSE @])
                /\ store' = IF m.id \in failedBefore THEN {r \in store : r.id # m.id} ELSE store
                /\ UNCHANGED serverLog
    /\ UNCHANGED <<online, mounted, keyGen, offlineOnly>>
    /\ UNCHANGED noteVars
    /\ UNCHANGED dbVars

\* (mutant) the catch block leaves the loop (break) instead of going on
RespondHaltOnFailure(p, outcome) ==
    /\ pass[p].pc = "inflight"
    /\ LET m == pass[p].queue[pass[p].i]
       IN  IF outcome = "ok"
           THEN /\ serverLog' = Append(serverLog, [src |-> m.id, type |-> m.type,
                                                   endpoint |-> m.endpoint, body |-> m.body])
                /\ pass' = [pass EXCEPT ![p].pc = "clear"]
                /\ UNCHANGED <<netCalls, stale, toasts>>
           ELSE /\ NextRecord(p, [pass[p] EXCEPT
                                    !.failed = @ \cup {m.id},
                                    !.rejected = IF outcome = "rejected" THEN @ \cup {m.id} ELSE @,
                                    !.i = Len(pass[p].queue)])
                /\ UNCHANGED serverLog
    /\ UNCHANGED <<online, mounted, store, keyGen, offlineOnly>>
    /\ UNCHANGED noteVars
    /\ UNCHANGED dbVars

\* (mutant) the catch block stamps the failed record again (db.put)
RespondRestamp(p, outcome) ==
    /\ pass[p].pc = "inflight"
    /\ LET m == pass[p].queue[pass[p].i]
       IN  IF outcome = "ok"
           THEN /\ serverLog' = Append(serverLog, [src |-> m.id, type |-> m.type,
                                                   endpoint |-> m.endpoint, body |-> m.body])
                /\ pass' = [pass EXCEPT ![p].pc = "clear"]
                /\ UNCHANGED <<netCalls, stale, toasts, store>>
           ELSE /\ NextRecord(p, [pass[p] EXCEPT
                                    !.failed = @ \cup {m.id},
                                    !.rejected = IF outcome = "rejected" THEN @ \cup {m.id} ELSE @])
                /\ store' = {IF r.id = m.id THEN [r EXCEPT !.timestamp = MaxClock] ELSE r :
                                r \in store}
                /\ UNCHANGED serverLog
    /\ UNCHANGED <<online, mounted, keyGen, offlineOnly>>
    /\ UNCHANGED noteVars
    /\ UNCHANGED dbVars

\* The request of record i ends.  Success: clearMutationFromQueue is called
\* (and awaited).  Failure: the catch block logs and the loop goes on.
Respond(p, outcome) ==
    /\ pass[p].pc = "inflight"
    /\ LET m == pass[p].queue[pass[p].i]
       IN  IF outcome = "ok"
           THEN /\ serverLog' = Append(serverLog, [src |-> m.id, type |-> m.type,
                                                   endpoint |-> m.endpoint, body |-> m.body])
                /\ pass' = [pass EXCEPT ![p].pc = "clear"]
                /\ UNCHANGED <<netCalls, stale, toasts>>
           ELSE /\ NextRecord(p, [pass[p] EXCEPT
                                    !.failed = @ \cup {m.id},
                                    !.rejected = IF outcome = "rejected" THEN @ \cup {m.id} ELSE @])
                /\ UNCHANGED serverLog
    /\ UNCHANGED <<online, mounted, store, keyGen, offlineOnly>>
    /\ UNCHANGED noteVars
    /\ UNCHANGED dbVars

\* (mutant) clearMutationFromQueue resolves without deleting
ClearKeepsRecord(p) ==
    /\ pass[p].pc = "clear"
    /\ NextRecord(p, pass[p])
    /\ UNCHANGED <<online, mounted, store, keyGen, serverLog, offlineOnly>>
    /\ UNCHANGED noteVars
    /\ UNCHANGED dbVars

\* clearMutationFromQueue(mutation.id) completes; the loop goes on.
Clear(p) ==
    /\ pass[p].pc = "clear"
    /\ clearMutationFromQueue(pass[p].queue[pass[p].i].id)
    /\ NextRecord(p, pass[p])
    /\ UNCHANGED <<online, mounted, keyGen, serverLog, offlineOnly>>
    /\ UNCHANGED noteVars
    /\ UNCHANGED dbVars

\* getMutationQueue rejects (getDb() or the read threw): the await at the top
\* of processQueue is outside the try block, so processQueue rejects.
GetQueueFail(p) ==
    /\ pass[p].pc = "getQueue"
    /\ pass' = [pass EXCEPT ![p].pc = "failed"]
    /\ UNCHANGED <<online, mounted, store, keyGen, serverLog, netCalls, stale, toasts, offlineOnly>>
    /\ UNCHANGED noteVars
    /\ UNCHANGED dbVars

\* clearMutationFromQueue rejects after a successful replay: the catch block
\* logs, the record stays stored, the loop goes on.
ClearFail(p) ==
    /\ pass[p].pc = "clear"
    /\ NextRecord(p, [pass[p] EXCEPT !.unremoved = @ \cup {pass[p].queue[pass[p].i].id}])
    /\ UNCHANGED <<online, mounted, store, keyGen, serverLog, offlineOnly>>
    /\ UNCHANGED noteVars
    /\ UNCHANGED dbVars

\* The processQueue invocations that have returned are gone: once none is
\* running their slots serve the next triggers, and the counters of requests
\* and toasts start again.
Recycle ==
    /\ \A p \in PassIds : pass[p].pc \in {"idle", "done"}
    /\ \E p \in PassIds : pass[p].pc = "done"
    /\ pass' = [p \in PassIds |-> NoPass]
    /\ netCalls' = 0
    /\ toasts' = [m \in ToastMsgs |-> 0]
    /\ UNCHANGED <<online, mounted, store, keyGen, serverLog, stale, offlineOnly>>
    /\ UNCHANGED noteVars
    /\ UNCHANGED dbVars

\* ------------------------------------------------------ hooks/use-notes.ts

\* A query's data: undefined until its first fetch, then a list of notes.
Undefined == [loaded |-> FALSE, data |-> <<>>]
Loaded(list) == [loaded |-> TRUE, data |-> list]

ServerId(n) == "S" \o ToString(n)       \* the id the server gives its n-th created note
LocalId(a) == "L" \o ToString(a)        \* crypto.randomUUID() of mutation a

Posts(log) == Cardinality({k \in 1..Len(log) : log[k].type = "POST"})

\* old.map(note => note.id === updatedNote.id ? {...note, ...updatedNote} : note)
OptimisticUpdate(list, id, data) ==
    [k \in 1..Len(list) |->
        IF list[k].id = id THEN [id |-> id, title |-> data.title] ELSE list[k]]

\* old.filter(note => note.id !== deletedId)
OptimisticDelete(list, id) ==
    LET Keep(n) == n.id # id IN SelectSeq(list, Keep)

\* The server's notes after the requests of log, applied to InitialNotes.
RECURSIVE ServerNotes(_)
ServerNotes(log) ==
    IF log = <<>> THEN InitialNotes
    ELSE LET before == SubSeq(log, 1, Len(log) - 1)
             notes == ServerNotes(before)
             req == log[Len(log)]
         IN  CASE req.type = "POST" ->
                    Append(notes, [id |-> ServerId(Posts(before) + 1), title |-> req.body.title])
               [] req.type = "PATCH" -> OptimisticUpdate(notes, req.endpoint[2], req.body)
               [] req.type = "DELETE" -> OptimisticDelete(notes, req.endpoint[2])

\* What GET /notes?... answers for the query k.
View(k, notes) ==
    IF k = "notes:all" THEN notes
    ELSE LET Sel(n) == n.id \in Tagged IN SelectSeq(notes, Sel)

\* (mutant) the updater is applied to the first 'notes' query only (setQueryData)
SetFirstQueryData(updated) ==
    [k \in NotesKeys |->
        IF cache[k].loaded /\ k = "notes:all" THEN Loaded(updated[k]) ELSE cache[k]]

\* queryClient.setQueriesData({queryKey: ['notes']}, updater), where the
\* updater returns old when old is undefined; updated[k] is what it returns
\* for the data of query k.
SetNotesData(updated) ==
    [k \in NotesKeys |-> IF cache[k].loaded THEN Loaded(updated[k]) ELSE cache[k]]

\* (mutant) onError restores the first snapshotted query only
RollbackFirstOnly(previousNotes) ==
    [k \in NotesKeys |->
        IF previousNotes[k].loaded /\ k = "notes:all" THEN previousNotes[k] ELSE cache[k]]

\* context.previousNotes.forEach(([queryKey, data]) => setQueryData(queryKey, data)):
\* setQueryData leaves a query alone when the data handed to it is undefined.
Rollback(previousNotes) ==
    [k \in NotesKeys |-> IF previousNotes[k].loaded THEN previousNotes[k] ELSE cache[k]]

\* invalidateQueries(['notes']); invalidateQueries(['tags'])
InvalidateAll == stale \cup NotesKeys \cup {TagsKey}

NoAction ==
    [pc |-> "idle", kind |-> "none", id |-> "none", data |-> NoBody, ctx |-> NoBody,
     wasOnline |-> FALSE, outcome |-> "none", queued |-> 0, storeError |-> FALSE,
     status |-> "idle", result |-> NoBody]

IdleAction == {a \in DOMAIN act : act[a].pc = "idle"}
FreeAction == CHOOSE a \in IdleAction : \A b \in IdleAction : a <= b

RequestOf(m) ==
    CASE m.kind = "create" -> CreateRequest(m.data)
      [] m.kind = "update" -> UpdateRequest(m.id, m.data)
      [] m.kind = "delete" -> DeleteRequest(m.id)

\* mutationFn up to its first await: queueOffline when navigator.onLine is
\* false, the direct call otherwise.
StartMutationFn(a, m) ==
    /\ act' = [act EXCEPT ![a] = [m EXCEPT !.wasOnline = online,
                                           !.pc = IF online THEN "calling" ELSE "queueing"]]
    /\ netCalls' = IF online THEN netCalls + 1 ELSE netCalls

\* useCreateNote().mutate(data): no onMutate.
CreateNote(data) ==
    /\ IdleAction # {}
    /\ StartMutationFn(FreeAction, [NoAction EXCEPT !.kind = "create", !.data = data,
                                                    !.status = "pending"])
    /\ UNCHANGED <<online, store, keyGen, serverLog, stale, toasts, offlineOnly, cache>>
    /\ UNCHANGED syncVars
    /\ UNCHANGED dbVars

\* useUpdateNote().mutate({id, ...data}): onMutate snapshots and overwrites.
UpdateNote(id, data) ==
    /\ IdleAction # {}
    /\ cache' = SetNotesData([k \in NotesKeys |-> OptimisticUpdate(cache[k].data, id, data)])
    /\ StartMutationFn(FreeAction, [NoAction EXCEPT !.kind = "update", !.id = id, !.data = data,
                                                    !.ctx = cache, !.status = "pending"])
    /\ UNCHANGED <<online, store, keyGen, serverLog, stale, toasts, offlineOnly>>
    /\ UNCHANGED syncVars
    /\ UNCHANGED dbVars

\* useDeleteNote().mutate(id): onMutate snapshots and removes.
DeleteNote(id) ==
    /\ IdleAction # {}
    /\ cache' = SetNotesData([k \in NotesKeys |-> OptimisticDelete(cache[k].data, id)])
    /\ StartMutationFn(FreeAction, [NoAction EXCEPT !.kind = "delete", !.id = id,
                                                    !.ctx = cache, !.status = "pending"])
    /\ UNCHANGED <<online, store, keyGen, serverLog, stale, toasts, offlineOnly>>
    /\ UNCHANGED syncVars
    /\ UNCHANGED dbVars

\* What the server answers to the direct call of m.
Response(m) ==
    CASE m.kind = "create" -> [id |-> ServerId(Posts(serverLog) + 1), title |-> m.data.title]
      [] m.kind = "update" -> [id |-> m.id, title |-> m.data.title]
      [] m.kind = "delete" -> NoBody

\* (mutant) the catch block rethrows every error: no fallback to the queue
DirectResponseNoFallback(a, outcome) ==
    /\ act[a].pc = "calling"
    /\ LET m == [act[a] EXCEPT !.outcome = outcome]
       IN  CASE outcome = "ok" ->
                  /\ serverLog' = Append(serverLog, [src |-> 0, type |-> RequestOf(m).type,
                                            endpoint |-> RequestOf(m).endpoint,
                                            body |-> RequestOf(m).body])
                  /\ act' = [act EXCEPT ![a] = [m EXCEPT !.pc = "done", !.status = "success",
                                                         !.result = Response(m)]]
                  /\ stale' = InvalidateAll
                  /\ UNCHANGED cache
             [] OTHER ->
                  /\ act' = [act EXCEPT ![a] = [m EXCEPT !.pc = "done", !.status = "error"]]
                  /\ cache' = IF m.kind = "create" THEN cache ELSE Rollback(m.ctx)
                  /\ stale' = IF m.kind = "create" THEN stale ELSE InvalidateAll
                  /\ UNCHANGED serverLog
    /\ UNCHANGED <<online, store, keyGen, netCalls, toasts, offlineOnly>>
    /\ UNCHANGED syncVars
    /\ UNCHANGED dbVars

\* (mutant) the record is enqueued whatever the direct call answered (the
\* queueOffline call moved to a finally block)
DirectResponseAlwaysQueues(a, outcome) ==
    /\ act[a].pc = "calling"
    /\ LET m == [act[a] EXCEPT !.outcome = outcome]
       IN  CASE outcome = "ok" ->
                  /\ serverLog' = Append(serverLog, [src |-> 0, type |-> RequestOf(m).type,
                                            endpoint |-> RequestOf(m).endpoint,
                                            body |-> RequestOf(m).body])
                  /\ act' = [act EXCEPT ![a] = [m EXCEPT !.pc = "queueing"]]
                  /\ UNCHANGED <<stale, cache>>
             [] outcome = "network" \/ ~online ->
                  /\ act' = [act EXCEPT ![a] = [m EXCEPT !.pc = "queueing"]]
                  /\ UNCHANGED <<serverLog, stale, cache>>
             [] OTHER ->
                  /\ act' = [act EXCEPT ![a] = [m EXCEPT !.pc = "done", !.status = "error"]]
                  /\ cache' = IF m.kind = "create" THEN cache ELSE Rollback(m.ctx)
                  /\ stale' = IF m.kind = "create" THEN stale ELSE InvalidateAll
                  /\ UNCHANGED serverLog
    /\ UNCHANGED <<online, store, keyGen, netCalls, toasts, offlineOnly>>
    /\ UNCHANGED syncVars
    /\ UNCHANGED dbVars

\* The direct call of mutation a ends.  Resolved: onSuccess (create) or
\* onSettled (update, delete) invalidates.  TypeError, or any error while
\* navigator.onLine is false: queueOffline.  Otherwise the error is thrown:
\* onError rolls back (update, delete), onSettled invalidates.
DirectResponse(a, outcome) ==
    /\ act[a].pc = "calling"
    /\ LET m == [act[a] EXCEPT !.outcome = outcome]
       IN  CASE outcome = "ok" ->
                  /\ serverLog' = Append(serverLog, [src |-> 0, type |-> RequestOf(m).type,
                                            endpoint |-> RequestOf(m).endpoint,
                                            body |-> RequestOf(m).body])
                  /\ act' = [act EXCEPT ![a] = [m EXCEPT !.pc = "done", !.status = "success",
                                                         !.result = Response(m)]]
                  /\ stale' = InvalidateAll
                  /\ UNCHANGED cache
             [] outcome = "network" \/ ~online ->
                  /\ act' = [act EXCEPT ![a] = [m EXCEPT !.pc = "queueing"]]
                  /\ UNCHANGED <<serverLog, stale, cache>>
             [] OTHER ->
                  /\ act' = [act EXCEPT ![a] = [m EXCEPT !.pc = "done", !.status = "error"]]
                  /\ cache' = IF m.kind = "create" THEN cache ELSE Rollback(m.ctx)
                  /\ stale' = IF m.kind = "create" THEN stale ELSE InvalidateAll
                  /\ UNCHANGED serverLog
    /\ UNCHANGED <<online, store, keyGen, netCalls, toasts, offlineOnly>>
    /\ UNCHANGED syncVars
    /\ UNCHANGED dbVars

\* {...a, ...b}: the properties of a, then those of b over them.
Spread(a, b) ==
    [f \in DOMAIN a \cup DOMAIN b |-> IF f \in DOMAIN b THEN b[f] ELSE a[f]]

\* The object literal queueOffline of useCreateNote returns: the id, the
\* caller's data spread over it, then the six properties written after the
\* spread; created and updated are the two `new Date()` reads.
PlaceholderNote(uuid, data, created, updated) ==
    Spread(Spread([id |-> uuid], data),
           [created_at |-> created,
            updated_at |-> updated,
            is_pinned |-> IF "is_pinned" \in DOMAIN data THEN data.is_pinned ELSE FALSE,
            is_archived |-> FALSE,
            tags |-> <<>>,
            color |-> "default"])

\* What queueOffline returns.
Placeholder(a, m, created, updated) ==
    CASE m.kind = "create" -> PlaceholderNote(LocalId(a), m.data, created, updated)
      [] m.kind = "update" -> [id |-> m.id, title |-> m.data.title]
      [] m.kind = "delete" -> [id |-> m.id]

\* What the `new Date()` calls of queueOffline read: two for a create, none
\* for an update or a delete.
DateReads(m) ==
    IF m.kind = "create" THEN Timestamps \X Timestamps ELSE {<<0, 0>>}

OfflineToast(m) ==
    CASE m.kind = "create" -> "created offline"
      [] m.kind = "update" -> "updated offline"
      [] m.kind = "delete" -> "deleted offline"

\* queueOffline resumes after addToMutationQueue: the toast, the returned
\* value, then onSuccess (create) or onSettled (update, delete).
QueueAdd(a, ts) ==
    /\ act[a].pc = "queueing"
    /\ keyGen <= MaxQueue
    /\ addToMutationQueue(RequestOf(act[a]), ts)
    /\ offlineOnly' = (offlineOnly /\ ~online)
    /\ toasts' = [toasts EXCEPT ![OfflineToast(act[a])] = @ + 1]
    /\ \E now \in DateReads(act[a]) :
          act' = [act EXCEPT ![a] = [@ EXCEPT !.pc = "done", !.status = "success",
                                              !.queued = keyGen,
                                              !.result = Placeholder(a, act[a], now[1], now[2])]]
    /\ stale' = InvalidateAll
    /\ UNCHANGED <<online, serverLog, netCalls, cache>>
    /\ UNCHANGED syncVars
    /\ UNCHANGED dbVars

\* (mutant) queueOffline catches the store's error and reports the mutation
\* as deferred
QueueFailSwallowed(a) ==
    /\ act[a].pc = "queueing"
    /\ toasts' = [toasts EXCEPT ![OfflineToast(act[a])] = @ + 1]
    /\ act' = [act EXCEPT ![a] = [@ EXCEPT !.pc = "done", !.status = "success",
                                           !.storeError = TRUE,
                                           !.result = Placeholder(a, act[a], 1, 1)]]
    /\ stale' = InvalidateAll
    /\ UNCHANGED <<online, store, keyGen, serverLog, netCalls, offlineOnly, cache>>
    /\ UNCHANGED syncVars
    /\ UNCHANGED dbVars

\* addToMutationQueue rejects (getDb() or db.add threw: the store is not
\* available): queueOffline throws at its await, before the toast, and so
\* does mutationFn; onError rolls back and onSettled invalidates (update,
\* delete), a create has neither.
QueueFail(a) ==
    /\ act[a].pc = "queueing"
    /\ act' = [act EXCEPT ![a] = [@ EXCEPT !.pc = "done", !.status = "error",
                                           !.storeError = TRUE]]
    /\ cache' = IF act[a].kind = "create" THEN cache ELSE Rollback(act[a].ctx)
    /\ stale' = IF act[a].kind = "create" THEN stale ELSE InvalidateAll
    /\ UNCHANGED <<online, store, keyGen, serverLog, netCalls, toasts, offlineOnly>>
    /\ UNCHANGED syncVars
    /\ UNCHANGED dbVars

\* A query that is invalidated, or was never fetched, is fetched: its data
\* becomes what the server answers.  (The steps are the refetches of the
\* 'notes' queries; the data of the 'tags' query is not part of the state.)
Refetch(k) ==
    /\ online
    /\ k \in stale \/ (k \in NotesKeys /\ ~cache[k].loaded)
    /\ stale' = stale \ {k}
    /\ cache' = IF k \in NotesKeys
                THEN [cache EXCEPT ![k] = Loaded(View(k, ServerNotes(serverLog)))]
                ELSE cache
    /\ UNCHANGED <<online, store, keyGen, serverLog, netCalls, toasts, offlineOnly, act>>
    /\ UNCHANGED syncVars
    /\ UNCHANGED dbVars

\* What an earlier session can have left in the store: nothing, or the three
\* records [Update A, Delete B, Update A] enqueued in this order.
LeftOver ==
    { {},
      { [id |-> 1, type |-> "PATCH", endpoint |-> <<"notes", "A">>,
         body |-> [title |-> "t1"], timestamp |-> 1],
        [id |-> 2, type |-> "DELETE", endpoint |-> <<"notes", "B">>,
         body |-> NoBody, timestamp |-> 1],
        [id |-> 3, type |-> "PATCH", endpoint |-> <<"notes", "A">>,
         body |-> [title |-> "t1"], timestamp |-> 2] } }

Init ==
    /\ online \in BOOLEAN
    /\ mounted = FALSE
    /\ store \in LeftOver
    /\ keyGen = Cardinality(store) + 1
    /\ pass = [p \in PassIds |-> NoPass]
    /\ serverLog = <<>>
    /\ netCalls = 0
    /\ stale = {}
    /\ toasts = [m \in ToastMsgs |-> 0]
    /\ offlineOnly = TRUE
    /\ cache = [k \in NotesKeys |-> Undefined]
    /\ act = [a \in ActionIds |-> NoAction]
    /\ DbOpen

Next ==
    \/ Mount
    \/ GoOnline
    \/ GoOffline
    \/ \E req \in Requests, ts \in Timestamps : Enqueue(req, ts)
    \/ \E p \in PassIds : GetQueue(p)
    \/ \E p \in PassIds, outcome \in Outcomes : Respond(p, outcome)
    \/ \E p \in PassIds : Clear(p)

Spec == Init /\ [][Next]_vars

\* The passes when the store can fail under them.
NextFaulty ==
    \/ Next
    \/ \E p \in PassIds : GetQueueFail(p)
    \/ \E p \in PassIds : ClearFail(p)

SpecFaulty == Init /\ [][NextFaulty]_vars

\* The passes over a session without end: triggers can come for ever, every
\* IndexedDB request completes, every fetch ends (fetchWithAuth's 3 s race),
\* and a replay that is tried again and again succeeds at some time.
NextLive ==
    \/ Next
    \/ Recycle

\* A step of some running pass.
PassStep ==
    \E p \in PassIds :
        \/ GetQueue(p)
        \/ Clear(p)
        \/ \E outcome \in Outcomes : Respond(p, outcome)

Fairness ==
    /\ WF_vars(PassStep)
    /\ SF_vars(\E p \in PassIds : Respond(p, "ok"))

SpecLive == Init /\ [][NextLive]_vars /\ Fairness

\* The note mutations, in the behaviours where no drain pass runs.
InitNotes ==
    /\ online \in BOOLEAN
    /\ mounted = FALSE
    /\ store = {}
    /\ keyGen = 1
    /\ pass = [p \in PassIds |-> NoPass]
    /\ serverLog = <<>>
    /\ netCalls = 0
    /\ stale = {}
    /\ toasts = [m \in ToastMsgs |-> 0]
    /\ offlineOnly = TRUE
    /\ cache \in [NotesKeys -> {Undefined}] \cup {[k \in NotesKeys |-> Loaded(View(k, InitialNotes))]}
    /\ act = [a \in ActionIds |-> NoAction]
    /\ DbOpen

NextNotes ==
    \/ GoOnline
    \/ GoOffline
    \/ \E data \in CreateInputs : CreateNote(data)
    \/ \E id \in NoteIds, data \in UpdateInputs : UpdateNote(id, data)
    \/ \E id \in NoteIds : DeleteNote(id)
    \/ \E a \in ActionIds, outcome \in Outcomes : DirectResponse(a, outcome)
    \/ \E a \in ActionIds, ts \in Timestamps : QueueAdd(a, ts)
    \/ \E a \in ActionIds : QueueFail(a)
    \/ \E k \in NotesKeys : Refetch(k)

SpecNotes == InitNotes /\ [][NextNotes]_vars

\* The application: the note mutations and the drain passes together, from a
\* start with an empty queue.
InitApp ==
    /\ online \in BOOLEAN
    /\ mounted = FALSE
    /\ store = {}
    /\ keyGen = 1
    /\ pass = [p \in PassIds |-> NoPass]
    /\ serverLog = <<>>
    /\ netCalls = 0
    /\ stale = {}
    /\ toasts = [m \in ToastMsgs |-> 0]
    /\ offlineOnly = TRUE
    /\ cache \in [NotesKeys -> {Undefined}] \cup {[k \in NotesKeys |-> Loaded(View(k, InitialNotes))]}
    /\ act = [a \in ActionIds |-> NoAction]
    /\ DbOpen

NextApp ==
    \/ Mount
    \/ GoOnline
    \/ GoOffline
    \/ \E data \in CreateInputs : CreateNote(data)
    \/ \E id \in NoteIds, data \in UpdateInputs : UpdateNote(id, data)
    \/ \E id \in NoteIds : DeleteNote(id)
    \/ \E a \in ActionIds, outcome \in Outcomes : DirectResponse(a, outcome)
    \/ \E a \in ActionIds, ts \in Timestamps : QueueAdd(a, ts)
    \/ \E a \in ActionIds : QueueFail(a)
    \/ \E k \in NotesKeys : Refetch(k)
    \/ \E p \in PassIds : GetQueue(p)
    \/ \E p \in PassIds, outcome \in Outcomes : Respond(p, outcome)
    \/ \E p \in PassIds : Clear(p)

SpecApp == InitApp /\ [][NextApp]_vars

\* useCreateNote on its own, over the CreateNoteInput values.
NextCreate ==
    \/ GoOnline
    \/ GoOffline
    \/ \E data \in NoteInputs : CreateNote(data)
    \/ \E a \in ActionIds, outcome \in Outcomes : DirectResponse(a, outcome)
    \/ \E a \in ActionIds, ts \in Timestamps : QueueAdd(a, ts)
    \/ \E a \in ActionIds : QueueFail(a)
    \/ \E k \in NotesKeys : Refetch(k)

SpecCreate == InitNotes /\ [][NextCreate]_vars

\* update and delete mutations that overlap: a second mutate() while the
\* first mutation is in flight, over loaded lists.
InitRace ==
    /\ online \in BOOLEAN
    /\ mounted = FALSE
    /\ store = {}
    /\ keyGen = 1
    /\ pass = [p \in PassIds |-> NoPass]
    /\ serverLog = <<>>
    /\ netCalls = 0
    /\ stale = {}
    /\ toasts = [m \in ToastMsgs |-> 0]
    /\ offlineOnly = TRUE
    /\ cache = [k \in NotesKeys |-> Loaded(View(k, InitialNotes))]
    /\ act = [a \in RaceIds |-> NoAction]
    /\ DbOpen

NextRace ==
    \/ GoOnline
    \/ GoOffline
    \/ \E id \in NoteIds, data \in UpdateInputs : UpdateNote(id, data)
    \/ \E id \in NoteIds : DeleteNote(id)
    \/ \E a \in RaceIds, outcome \in Outcomes : DirectResponse(a, outcome)
    \/ \E a \in RaceIds, ts \in Timestamps : QueueAdd(a, ts)
    \/ \E a \in RaceIds : QueueFail(a)
    \/ \E k \in NotesKeys : Refetch(k)

SpecRace == InitRace /\ [][NextRace]_vars

\* lib/db.ts on its own, under any client: the session starts with no handle
\* (dbPromise null) and whatever an earlier session left in the store.
InitDb ==
    /\ online = TRUE
    /\ mounted = FALSE
    /\ store \in LeftOver
    /\ keyGen = Cardinality(store) + 1
    /\ pass = [p \in PassIds |-> NoPass]
    /\ serverLog = <<>>
    /\ netCalls = 0
    /\ stale = {}
    /\ toasts = [m \in ToastMsgs |-> 0]
    /\ offlineOnly = TRUE
    /\ cache = [k \in NotesKeys |-> Undefined]
    /\ act = [a \in ActionIds |-> NoAction]
    /\ dbPromise = 0
    /\ opened = [n \in OpenIds |-> "none"]
    /\ call = [c \in CallIds |-> NoCall]

NextDb ==
    \/ \E op \in Ops : Call(op)
    \/ \E n \in OpenIds : OpenResolves(n)
    \/ \E n \in OpenIds : OpenRejects(n)
    \/ \E c \in CallIds : GetDbRejected(c)
    \/ \E c \in CallIds : AddDone(c)
    \/ \E c \in CallIds : ListDone(c)
    \/ \E c \in CallIds : DeleteDone(c)

SpecDb == InitDb /\ [][NextDb]_vars

TypeOK ==
    /\ online \in BOOLEAN
    /\ keyGen \in 1..(MaxQueue + 1) \cup {Cardinality(S) + 1 : S \in LeftOver}
    /\ \A p \in PassIds : pass[p].pc \in {"idle", "getQueue", "inflight", "clear", "done", "failed"}
    /\ dbPromise \in 0..MaxOpens
    /\ \A n \in OpenIds : opened[n] \in {"none", "pending", "resolved", "rejected"}
    /\ \A c \in CallIds : call[c].pc \in {"idle", "getDb", "done", "failed"}

\* ------------------------------------------------------------------ claims

SrcOf(log) == [k \in 1..Len(log) |-> log[k].src]
Acked == {serverLog[k].src : k \in 1..Len(serverLog)}
Records(q) == {q[k] : k \in 1..Len(q)}
Failures == UNION {pass[p].failed : p \in PassIds}
Returned(p) == pass[p].pc = "done" /\ pass[p].read

\* C1: mutations enqueued while offline, every replay succeeds: once drain
\* (processQueue) has returned the queue is empty and the server has received
\* each enqueued mutation exactly once, in enqueue order.
C1_DrainDeliversOnceInOrder ==
    \A p \in PassIds :
        ( /\ Returned(p)
          /\ offlineOnly
          /\ keyGen > 1
          /\ Ids(Records(pass[p].queue)) = 1..(keyGen - 1)
          /\ Failures = {} )
        => /\ store = {}
           /\ SrcOf(serverLog) = [k \in 1..(keyGen - 1) |-> k]

\* C2: getMutationQueue returns the pending records sorted by ascending id,
\* whatever timestamps they were stamped with.
C2_ListOrderedById ==
    \A k \in 1..(Len(getMutationQueue) - 1) :
        getMutationQueue[k].id < getMutationQueue[k + 1].id

\* C3: a drain that finds the queue empty issues no network call, leaves the
\* queue empty, invalidates nothing and shows no toast.
C3_EmptyDrainNoOp ==
    [][\A p \in PassIds :
          (pass[p].pc = "getQueue" /\ pass'[p].pc # "getQueue" /\ store = {})
          => /\ pass'[p].pc = "done"
             /\ store' = {}
             /\ UNCHANGED <<serverLog, netCalls, stale, toasts>>]_vars

W3_EmptyDrainReturned ==
    \E p \in PassIds :
        Returned(p) /\ pass[p].queue = <<>> /\ store = {} /\ netCalls = 0

\* C4: a record is gone from the store only if a replay of that record was
\* answered with success before: no other step ever removes a record.
C4_RemovedOnlyAfterSuccess ==
    \A id \in 1..(keyGen - 1) : id \notin Ids(store) => id \in Acked

W4_RecordRemoved ==
    \E id \in 1..(keyGen - 1) : id \notin Ids(store) /\ store # {}

\* C5: a failed replay never removes the record, whatever the failure class:
\* a record a pass has failed on is still queued, during and after the pass,
\* unless a replay of that record has succeeded (only an overlapping or later
\* pass can have done that).
C5_FailedReplayRetained ==
    \A p \in PassIds : \A r \in Records(pass[p].queue) :
        (r.id \in pass[p].failed /\ r.id \notin Acked) => r \in store

W5_RejectedCreateStillQueued ==
    \E p \in PassIds : \E r \in store :
        /\ Returned(p)
        /\ r.type = "POST"
        /\ r.id \in pass[p].rejected

\* C6: a failure does not halt the pass: once the pass has returned it has sent
\* a request for every record of its snapshot, the records it replayed with
\* success are gone from the queue and applied by the server, and only records
\* it failed on are still queued.
C6_FailureDoesNotHaltPass ==
    \A p \in PassIds :
        Returned(p)
        => /\ pass[p].tried = Ids(Records(pass[p].queue))
           /\ \A r \in Records(pass[p].queue) :
                 /\ r.id \notin pass[p].failed => (r \notin store /\ r.id \in Acked)
                 /\ r \in store => r.id \in pass[p].failed

\* Scenario C: three records, the first one failed, the two later ones replayed.
W6_FirstFailedLaterReplayed ==
    \E p \in PassIds :
        /\ Returned(p)
        /\ Len(pass[p].queue) = 3
        /\ pass[p].failed = {pass[p].queue[1].id}
        /\ store = {pass[p].queue[1]}
        /\ SrcOf(serverLog) = <<pass[p].queue[2].id, pass[p].queue[3].id>>

\* C7: when an update or delete is rolled back (onError), every 'notes' query
\* the optimistic change touched holds again exactly the data snapshotted
\* before the change was applied.
C7_RollbackRestoresSnapshot ==
    [][\A a \in ActionIds :
          (act[a].kind \in {"update", "delete"} /\ act[a].status = "pending"
             /\ act'[a].status = "error")
          => \A k \in NotesKeys :
                act[a].ctx[k].loaded => cache'[k] = act[a].ctx[k]]_vars

Touches(m, list) == \E k \in 1..Len(list) : list[k].id = m.id

W7_RolledBack ==
    \E a \in ActionIds :
        /\ act[a].kind \in {"update", "delete"}
        /\ act[a].status = "error"
        /\ \A k \in NotesKeys :
              /\ act[a].ctx[k].loaded
              /\ Touches(act[a], act[a].ctx[k].data)
              /\ cache[k] = act[a].ctx[k]

\* C8: after a note was created while offline (and nothing else was done) the
\* queue holds exactly one Create record, with the payload, and a loaded
\* 'notes' query shows the placeholder note with the title.
C8_OfflineCreateShowsPlaceholder ==
    \A a \in ActionIds :
        ( /\ act[a].kind = "create"
          /\ ~act[a].wasOnline
          /\ act[a].status = "success"
          /\ \A b \in ActionIds \ {a} : act[b].pc = "idle"
          /\ \A k \in NotesKeys : cache[k].loaded )
        => /\ store # {}
           /\ \A r \in store :
                 /\ r.id = act[a].queued
                 /\ r.type = "POST"
                 /\ r.body = act[a].data
           /\ \E k \in NotesKeys :
                 /\ cache[k].loaded
                 /\ \E n \in 1..Len(cache[k].data) :
                       /\ cache[k].data[n].id = LocalId(a)
                       /\ cache[k].data[n].title = act[a].data.title

\* C9: a mutation whose direct call failed with an application-level error is
\* never enqueued: the error is surfaced; a mutation is enqueued only when
\* navigator.onLine was false at its start or its direct call failed with a
\* network-level error.
C9_RejectedNeverQueued ==
    \A a \in ActionIds :
        /\ (act[a].pc = "queueing" \/ act[a].queued > 0)
           => (~act[a].wasOnline \/ act[a].outcome = "network")
        /\ act[a].outcome = "rejected"
           => (act[a].pc = "done" /\ act[a].status = "error" /\ act[a].queued = 0)

\* C10: overlapping passes never have the server apply a queued record twice,
\* lose no record, and both return.
C10_NoDoubleDispatch ==
    /\ \A j, k \in 1..Len(serverLog) :
          serverLog[j].src = serverLog[k].src => j = k
    /\ \A id \in 1..(keyGen - 1) : id \in Ids(store) \/ id \in Acked

AllKeys == NotesKeys \cup {TagsKey}

\* C11: once a pass over a non-empty queue has returned, whatever the outcomes
\* of its records, 'notes' and 'tags' are both invalidated; nothing is
\* invalidated before some pass has attempted (and finished) every record of
\* its snapshot.
C11_InvalidatedAfterPass ==
    /\ \A p \in PassIds :
          (Returned(p) /\ pass[p].queue # <<>>) => AllKeys \subseteq stale
    /\ stale # {}
       => \E p \in PassIds :
             /\ Returned(p)
             /\ pass[p].queue # <<>>
             /\ pass[p].i = Len(pass[p].queue)
             /\ pass[p].tried = Ids(Records(pass[p].queue))
             /\ pass[p].tried \subseteq pass[p].failed \cup Acked

W11_InvalidatedAfterMixedPass ==
    \E p \in PassIds :
        /\ Returned(p)
        /\ pass[p].failed # {}
        /\ pass[p].tried \ pass[p].failed # {}
        /\ AllKeys \subseteq stale

Started(p) == pass[p].pc = "idle" /\ pass'[p].pc # "idle"
Quiet == \A p \in PassIds : pass[p].pc \in {"idle", "done"}

\* C12: a pass starts in a step exactly when that step is the mount or an
\* offline-to-online transition with the listener registered, and one pass
\* per trigger; while no pass is running and no trigger happens, no request
\* is sent and no record leaves the queue (there is no timer that retries).
C12_PassStartsOnlyOnTrigger ==
    [][/\ (\E p \in PassIds : Started(p))
          <=> ((~mounted /\ mounted') \/ (mounted /\ ~online /\ online'))
       /\ \A p, q \in PassIds : (Started(p) /\ Started(q)) => p = q
       /\ (Quiet /\ ~\E p \in PassIds : Started(p))
          => (UNCHANGED <<serverLog, netCalls>> /\ store \subseteq store')]_vars

W12_FailedRecordWaits ==
    \E p \in PassIds :
        /\ Returned(p)
        /\ pass[p].failed # {}
        /\ Quiet
        /\ IdlePass # {}
        /\ online /\ mounted
        /\ \E r \in store : r.id \in pass[p].failed

\* C13: a call that awaits an open that failed fails (it never gets a
\* handle); dbPromise never keeps a rejected promise, so the next call opens
\* again; once an open has succeeded it is the promise every later call gets
\* and no further open is made.
C13_FailedOpenDoesNotWedge ==
    /\ \A c \in CallIds :
          (call[c].pc # "idle" /\ opened[call[c].promise] = "rejected")
          => call[c].pc \in {"getDb", "failed"}
    /\ \A c \in CallIds :
          call[c].pc = "done" => opened[call[c].promise] = "resolved"
    /\ dbPromise # 0 => opened[dbPromise] # "rejected"
    /\ \A n \in OpenIds :
          opened[n] = "resolved"
          => /\ dbPromise = n
             /\ \A k \in OpenIds : k > n => opened[k] = "none"

W13_RetryAfterFailedOpen ==
    \E c, d, e \in CallIds :
        /\ d # e
        /\ call[c].pc = "failed" /\ opened[call[c].promise] = "rejected"
        /\ call[d].pc = "done" /\ call[e].pc = "done"
        /\ call[d].promise = call[e].promise
        /\ call[d].promise > call[c].promise

\* C14: clearMutationFromQueue(id) succeeds whether or not id is stored: with
\* id not stored the store is unchanged, with id stored exactly that record
\* is removed.
C14_RemoveIdempotent ==
    [][\A c \in CallIds :
          ( /\ call[c].pc = "getDb"
            /\ call'[c].pc # "getDb"
            /\ call[c].op.kind = "delete"
            /\ opened[call[c].promise] = "resolved" )
          => /\ call'[c].pc = "done"
             /\ call[c].op.id \notin Ids(store) => store' = store
             /\ call[c].op.id \in Ids(store)
                => /\ store' \subseteq store
                   /\ Ids(store') = Ids(store) \ {call[c].op.id}
                   /\ Cardinality(store') = Cardinality(store) - 1]_vars

W14_RemovedMissingAndStored ==
    \E c, d \in CallIds :
        /\ c # d
        /\ call[c].pc = "done" /\ call[c].op.kind = "delete"
        /\ call[c].op.id >= keyGen
        /\ call[d].pc = "done" /\ call[d].op.kind = "delete"
        /\ call[d].op.id < keyGen /\ call[d].op.id \notin Ids(store)

\* C15: addToMutationQueue gives the new record an id above every id handed
\* out before (ids are not reused after removals) and returns the stored
\* record to its caller.
C15_EnqueueReturnsRecord ==
    \A c \in CallIds :
        (call[c].pc = "done" /\ call[c].op.kind = "add")
        => /\ call[c].key < keyGen
           /\ \A d \in CallIds \ {c} :
                 (call[d].pc = "done" /\ call[d].op.kind = "add") => call[d].key # call[c].key
           /\ call[c].result = [id |-> call[c].key, type |-> call[c].op.req.type,
                                endpoint |-> call[c].op.req.endpoint,
                                body |-> call[c].op.req.body, timestamp |-> call[c].op.ts]

\* C16: a stored record is never edited: ids are unique in the store, in every
\* step a record whose id stays in the store stays the same record, and a
\* record that appears carries the id the key generator hands out.
C16_RecordsImmutable ==
    /\ [](\A r, q \in store : r.id = q.id => r = q)
    /\ [][/\ \A r \in store : r.id \in Ids(store') => r \in store'
          /\ \A r \in store' : r \in store \/ (r.id = keyGen /\ keyGen' = keyGen + 1)]_vars

W16_RecordKeptAcrossReplays ==
    \E p \in PassIds : \E r \in store :
        /\ Returned(p)
        /\ r \in Records(pass[p].queue)
        /\ r.id \in pass[p].failed
        /\ Acked # {}
        /\ Cardinality(store) < keyGen - 1

\* C20: within one pass the records are replayed one at a time in ascending
\* enqueue (id) order: the request of a record is sent only after the request
\* of the record before it has ended, by a failure or by a success followed
\* by its removal.
C20_SequentialAscending ==
    \A p \in PassIds : \A k \in 1..Len(pass[p].queue) :
        /\ pass[p].queue[k].id \in pass[p].tried <=> k <= pass[p].i
        /\ (1 < k /\ k <= pass[p].i)
           => /\ pass[p].queue[k - 1].id < pass[p].queue[k].id
              /\ \/ pass[p].queue[k - 1].id \in pass[p].failed
                 \/ (pass[p].queue[k - 1].id \in Acked /\ pass[p].queue[k - 1] \notin store)

OfflineToasts == toasts["created offline"] + toasts["updated offline"] + toasts["deleted offline"]
Alone(a) == \A b \in ActionIds \ {a} : act[b].pc = "idle"

\* C18: a mutation whose addToMutationQueue failed ends as failed (status
\* error, no result, nothing stored); no 'will sync when online' toast is
\* shown for it; for an update or delete every 'notes' query holds its
\* snapshot again (as long as nothing else has written it since).
C18_StoreFailureSurfaced ==
    \A a \in ActionIds :
        act[a].storeError
        => /\ act[a].pc = "done"
           /\ act[a].status = "error"
           /\ act[a].result = NoBody
           /\ act[a].queued = 0
           /\ OfflineToasts = Cardinality({b \in ActionIds : act[b].queued > 0})
           /\ (act[a].kind \in {"update", "delete"} /\ Alone(a))
              => \A k \in NotesKeys :
                    (act[a].ctx[k].loaded /\ k \in stale) => cache[k] = act[a].ctx[k]

W18_StoreFailureRolledBack ==
    \E a \in ActionIds :
        /\ act[a].storeError
        /\ act[a].kind \in {"update", "delete"}
        /\ store = {}
        /\ \A k \in NotesKeys :
              /\ act[a].ctx[k].loaded
              /\ Touches(act[a], act[a].ctx[k].data)
              /\ k \in stale
              /\ cache[k] = act[a].ctx[k]

\* Scenario B: the only mutation is a delete started while online, its direct
\* call ended with a timeout, the list views were loaded, the store works.
ScenarioB(a) ==
    /\ act[a].kind = "delete"
    /\ act[a].wasOnline
    /\ act[a].outcome = "network"
    /\ ~act[a].storeError
    /\ Alone(a)
    /\ \A k \in NotesKeys : act[a].ctx[k].loaded

Shows(k, id) == \E n \in 1..Len(cache[k].data) : cache[k].data[n].id = id
SeenBy(p, id) == id \in Ids(Records(pass[p].queue))

AllIds == (1..MaxQueue) \cup UNION {Ids(S) : S \in LeftOver}

\* A pass is started while the client is reachable.
Trigger == \E p \in PassIds : Started(p) /\ online'

\* C19: provided passes keep being started while reachable (and a replay that
\* is retried for ever succeeds at some time: the fairness of SpecLive), every
\* stored record is eventually accepted by the server and removed, and no
\* record is ever gone without having been accepted.
C19_AtLeastOnce ==
    []<><<Trigger>>_vars
    => /\ \A id \in AllIds :
             (id \in Ids(store)) ~> (id \in Acked /\ id \notin Ids(store))
       /\ [](\A id \in 1..(keyGen - 1) : id \notin Ids(store) => id \in Acked)

W19_DeliveredAfterRetry ==
    \E p, q \in PassIds : \E id \in pass[p].failed :
        /\ Returned(p)
        /\ Returned(q)
        /\ id \in pass[q].tried \ pass[q].failed
        /\ id \in Acked
        /\ id \notin Ids(store)

Has(list, id) == \E n \in 1..Len(list) : list[n].id = id
Began(a) == act[a].pc = "idle" /\ act'[a].pc # "idle"

\* C21: in the step that starts an update or delete (onMutate, then the call
\* of mutationFn) the optimistic effect is in the cache while the request has
\* only been issued and nothing is enqueued or applied by the server: every
\* loaded 'notes' query that holds the note holds it with the new fields
\* (update) or holds it no more (delete), its other notes as they were;
\* queries without the note, and queries not loaded, are unchanged.
C21_OptimisticBeforeCall ==
    [][\A a \in ActionIds :
          (Began(a) /\ act'[a].kind \in {"update", "delete"})
          => /\ act'[a].pc \in {"calling", "queueing"}
             /\ act'[a].queued = 0
             /\ UNCHANGED <<store, keyGen, serverLog>>
             /\ \A k \in NotesKeys :
                   LET old == cache[k].data
                       new == cache'[k].data
                       id == act'[a].id
                   IN  /\ cache'[k].loaded = cache[k].loaded
                       /\ (~cache[k].loaded \/ ~Has(old, id)) => cache'[k] = cache[k]
                       /\ (cache[k].loaded /\ act'[a].kind = "update")
                          => /\ Len(new) = Len(old)
                             /\ \A n \in 1..Len(old) :
                                   IF old[n].id = id
                                   THEN new[n].id = id /\ new[n].title = act'[a].data.title
                                   ELSE new[n] = old[n]
                       /\ (cache[k].loaded /\ act'[a].kind = "delete")
                          => /\ ~Has(new, id)
                             /\ Len(new) = Cardinality({n \in 1..Len(old) : old[n].id # id})
                             /\ \A n \in 1..Len(new) :
                                   \E j \in n..Len(old) : old[j] = new[n]]_vars

W21_DeletedFromOneListOnly ==
    \E a \in ActionIds :
        /\ act[a].kind = "delete"
        /\ act[a].pc = "calling"
        /\ \A k \in NotesKeys : act[a].ctx[k].loaded
        /\ Has(act[a].ctx["notes:all"].data, act[a].id)
        /\ ~Has(act[a].ctx["notes:tag"].data, act[a].id)
        /\ ~Has(cache["notes:all"].data, act[a].id)
        /\ Len(cache["notes:all"].data) = Len(act[a].ctx["notes:all"].data) - 1
        /\ cache["notes:tag"] = act[a].ctx["notes:tag"]

Given(d, f) == f \in DOMAIN d

\* C22: the note queueOffline of useCreateNote returns has a client-generated
\* id, clock readings as created and updated time, no tags, and the title,
\* content, color and pinned flag the caller gave.
C22_PlaceholderFields ==
    \A a \in ActionIds :
        (act[a].kind = "create" /\ act[a].queued > 0)
        => LET n == act[a].result
               d == act[a].data
           IN  /\ n.id = LocalId(a)
               /\ n.created_at \in Timestamps
               /\ n.updated_at \in Timestamps
               /\ n.tags = <<>>
               /\ n.title = d.title
               /\ Given(d, "content") => n.content = d.content
               /\ Given(d, "color") => n.color = d.color
               /\ Given(d, "is_pinned") => n.is_pinned = d.is_pinned

\* C23: no error of the transport or of the store makes processQueue fail
\* (reject); a record whose replay or removal failed is still stored unless a
\* removal of it succeeded; and the pass goes on: once it has returned it has
\* attempted every record of its snapshot.
C23_DrainErrorsNotPropagated ==
    \A p \in PassIds :
        /\ pass[p].pc # "failed"
        /\ \A r \in Records(pass[p].queue) :
              (r.id \in pass[p].failed \cup pass[p].unremoved)
              => (r \in store \/ \E q \in PassIds \ {p} : r.id \in pass[q].tried)
        /\ Returned(p) => pass[p].tried = Ids(Records(pass[p].queue))

Summarised == {p \in PassIds : Returned(p) /\ pass[p].queue # <<>>}

\* C24: each pass that has completed over a non-empty queue has shown one
\* summary, and the summary says success ('Sync complete') only for a pass
\* that replayed every record of its snapshot with success: a pass that
\* retained a record reports failure instead.
C24_SummaryReflectsOutcomes ==
    toasts["Sync complete"] = Cardinality({p \in Summarised : pass[p].failed = {}})

Pos(q, r) == CHOOSE n \in 1..Len(q) : q[n] = r

\* C25: a record leaves the store only in a step that follows a successful
\* replay of it, however often its replay has failed; every pass that reads
\* the queue gets every stored record, and has attempted each of them when it
\* returns; the records that stay keep their order in the list.
C25_NoAbandonedState ==
    [][/\ \A r \in store : r.id \notin Ids(store') => r.id \in Acked
       /\ \A p \in PassIds :
             /\ (pass[p].pc = "getQueue" /\ pass'[p].pc # "getQueue")
                => Records(pass'[p].queue) = store
             /\ (~Returned(p) /\ Returned(p)')
                => pass'[p].tried = Ids(Records(pass'[p].queue))
       /\ \A r, q \in store \cap store' :
             (Pos(IndexOrder(store), r) < Pos(IndexOrder(store), q))
             <=> (Pos(IndexOrder(store'), r) < Pos(IndexOrder(store'), q))]_vars

W25_FailedInEveryPass ==
    \E r \in store :
        /\ \A p \in PassIds : Returned(p) /\ r.id \in pass[p].failed
        /\ r.id \notin Acked
        /\ Acked # {}

\* C26: a processQueue call made while navigator.onLine is false returns at
\* once: in that step the store, the requests sent, the server, the
\* invalidated keys and the toasts are unchanged, also with records stored;
\* the invocation has read nothing and does nothing later.
C26_OfflineDrainNoOp ==
    [][\A p \in PassIds :
          /\ (Started(p) /\ ~online')
             => /\ pass'[p] = [NoPass EXCEPT !.pc = "done"]
                /\ UNCHANGED <<store, keyGen, serverLog, netCalls, stale, toasts, cache>>
          /\ (pass[p].pc = "done" /\ ~pass[p].read) => pass'[p] = pass[p]]_vars

W26_OfflineDrainOverRecords ==
    \E p \in PassIds :
        /\ pass[p] = [NoPass EXCEPT !.pc = "done"]
        /\ ~online
        /\ Cardinality(store) = 3
        /\ netCalls = 0
        /\ stale = {}
        /\ \A msg \in ToastMsgs : toasts[msg] = 0

\* The ids handed out after the pass p read its snapshot.
Late(p) == pass[p].keyAtRead..(keyGen - 1)

\* C27: a pass works on the list it read: the list never changes, the pass
\* sends and removes records of the list only, and a record enqueued after
\* the read, while the pass runs, is still stored when the pass returns.
C27_PassWorksOnSnapshot ==
    [][\A p \in PassIds :
          pass[p].read
          => /\ pass'[p].queue = pass[p].queue
             /\ pass'[p].tried \subseteq Ids(Records(pass[p].queue))
             /\ \A id \in Late(p) : id \notin Ids(Records(pass[p].queue))
             /\ pass'[p] # pass[p]
                => \A r \in store : r.id \in Late(p) => r \in store'
             /\ (~Returned(p) /\ Returned(p)')
                => \A id \in Late(p) : id \in Ids(store')]_vars

\* The optimistic effect of the mutation m is in the list.
Effect(m, list) ==
    IF m.kind = "update"
    THEN \A n \in 1..Len(list) : list[n].id = m.id => list[n].title = m.data.title
    ELSE ~Has(list, m.id)

\* C28: when a mutation fails while another update or delete is in flight,
\* the rollback leaves the other mutation's optimistic effect in every
\* 'notes' query that showed it.
C28_RollbackKeepsOtherEffect ==
    [][\A a, b \in RaceIds :
          ( /\ a # b
            /\ act[a].status = "pending" /\ act'[a].status = "error"
            /\ act[b].status = "pending"
            /\ act[b].kind \in {"update", "delete"} )
          => \A k \in NotesKeys :
                (cache[k].loaded /\ Effect(act[b], cache[k].data))
                => Effect(act[b], cache'[k].data)]_vars

\* The records stored for the mutation a.
RecordsOf(a) == {r \in store : r.id = act[a].queued}

\* The three ways a mutation ends.
Direct(a) ==
    /\ act[a].status = "success"
    /\ act[a].outcome = "ok"
    /\ act[a].queued = 0
Deferred(a) ==
    /\ act[a].status = "success"
    /\ act[a].outcome # "ok"
    /\ act[a].queued > 0
    /\ \E r \in store :
          /\ RecordsOf(a) = {r}
          /\ [type |-> r.type, endpoint |-> r.endpoint, body |-> r.body] = RequestOf(act[a])
Surfaced(a) ==
    /\ act[a].status = "error"
    /\ act[a].queued = 0
    /\ act[a].result = NoBody

\* C29: a mutation that has ended has ended in exactly one of three ways: its
\* direct call resolved and nothing was enqueued; one record, with the type,
\* endpoint and body of the mutation, was enqueued and the mutation resolved;
\* or it failed and nothing was enqueued.  The store holds one record per
\* deferred mutation and no other, and the server got a direct request only
\* from the mutations that ended the first way.
C29_ThreeOutcomes ==
    /\ \A a \in ActionIds :
          act[a].pc = "done"
          => \/ Direct(a) /\ ~Deferred(a) /\ ~Surfaced(a)
             \/ ~Direct(a) /\ Deferred(a) /\ ~Surfaced(a)
             \/ ~Direct(a) /\ ~Deferred(a) /\ Surfaced(a)
    /\ Cardinality(store) = Cardinality({a \in ActionIds : act[a].queued > 0})
    /\ keyGen - 1 = Cardinality(store)
    /\ Len(serverLog) = Cardinality({a \in ActionIds : act[a].outcome = "ok"})

W29_DeferredAfterTimeout ==
    \E a \in ActionIds :
        /\ act[a].pc = "done"
        /\ Deferred(a)
        /\ act[a].wasOnline
        /\ act[a].outcome = "network"
        /\ act[a].kind = "update"
        /\ serverLog = <<>>

\* C30: while the record an update or delete enqueued is still stored, every
\* 'notes' query that was loaded when the mutation started shows the
\* optimistic effect: the invalidation of onSettled and the refetch it starts
\* do not put the server's state from before the mutation in its place.
C30_OptimisticStateKept ==
    \A a \in ActionIds :
        (act[a].kind \in {"update", "delete"} /\ act[a].queued > 0 /\ RecordsOf(a) # {})
        => \A k \in NotesKeys :
              act[a].ctx[k].loaded
              => cache[k].loaded /\ Effect(act[a], cache[k].data)
====
